---- MODULE Spec2Model ----
(***************************************************************************)
(* Lost-and-found matching service (src/app.py).                           *)
(*                                                                         *)
(* The state is the SQLite database (tables user, item, notification), the *)
(* process configuration read from the environment, and the last           *)
(* response: what the handler returned and the trace of what notify_user   *)
(* did while the request ran.  Every route handler is one atomic action    *)
(* (the requests are synchronous and sequential).                          *)
(*                                                                         *)
(* The login session is a signed cookie kept by the browser, not by the    *)
(* server: each request carries the user id of some session (0 for none),  *)
(* and flask_login resolves it with User.query.get.  A cookie outlives     *)
(* /reset, so a request may carry an id that no longer, or again, names a  *)
(* user.  The upload folder is not part of the state: save_image writes a  *)
(* file that no handler reads back.                                        *)
(*                                                                         *)
(* Embeddings are integer vectors; cosine similarity is computed exactly   *)
(* on them and kept in units of 1/2000 (1500 is 0.75).  Free-text item     *)
(* fields (name, description, location, contact) never influence control   *)
(* flow and are left out of the Item rows.                                 *)
(***************************************************************************)
EXTENDS Integers, Sequences, FiniteSets

VARIABLES
    users,          \* table user, in id order: users[i] has id i
    items,          \* table item, in id order: items[i] has id i
    notifications,  \* table notification, in id order
    MAIL_USERNAME,  \* TRUE when app.config['MAIL_USERNAME'] is set
    USE_TWILIO,     \* TRUE when the three TWILIO_ variables are set
    response,       \* what the last request returned: "results", "scan_error",
                    \* "lost_reported", "no_image", "extract_error", "reset",
                    \* or "page" for any other page or redirect
    matches,        \* the matches handed to results.html by the last request
    log             \* trace of the notify_user calls of the last request

vars == <<users, items, notifications, MAIL_USERNAME, USE_TWILIO,
          response, matches, log>>

(***************************************************************************)
(* Bounds of the model.                                                    *)
(***************************************************************************)
MaxUsers == 2
MaxItems == 3
MaxLegacy == 1

(***************************************************************************)
(* Inputs.                                                                 *)
(***************************************************************************)
\* Three outputs of the feature extractor.  Against EmbA they score
\* 1.0 (EmbA), exactly 0.75 (EmbB) and 0.688 (EmbC); EmbB against EmbC
\* scores 0.975.
EmbA == <<1, 0, 0, 0, 0>>
EmbB == <<3, 2, 1, 1, 1>>
EmbC == <<3, 2, 2, 1, 1>>
Embeddings == {EmbA, EmbB, EmbC}

\* An uploaded file: none, one that PIL cannot decode, or a photo whose
\* embedding is feats.
NoPhoto ==
    {[kind |-> "none", feats |-> <<>>], [kind |-> "corrupt", feats |-> <<>>]}

\* The uploads tried on /lost and on /found.
LostImages == NoPhoto \cup {[kind |-> "photo", feats |-> e] : e \in Embeddings}

FoundImages == NoPhoto \cup {[kind |-> "photo", feats |-> EmbA]}

RegisterForms ==
    {[username |-> "ann", email |-> "ann@x", password |-> "pw", phone |-> "555"],
     [username |-> "bob", email |-> "", password |-> "pw", phone |-> ""]}

LoginForms ==
    {[email |-> "ann@x", password |-> "pw"], [email |-> "", password |-> "pw"],
     [email |-> "ann@x", password |-> "bad"]}

(***************************************************************************)
(* Item.features: json.dumps on write, json.loads on read.                 *)
(***************************************************************************)
\* A Text column holding the JSON array of a list of floats.  repr of a float
\* round-trips, so the array that is read back is the one written.
json_dumps(feats) == [text |-> "array", arr |-> feats]

feature_array(item) ==
    IF item.features.text = "array"
    THEN [raised |-> FALSE, arr |-> item.features.arr]
    ELSE [raised |-> TRUE, arr |-> <<>>]

(***************************************************************************)
(* compute_similarity                                                      *)
(***************************************************************************)
RECURSIVE Dot(_, _)
Dot(a, b) ==
    IF a = <<>> THEN 0 ELSE Head(a) * Head(b) + Dot(Tail(a), Tail(b))

\* Largest k in lo..hi with k * k <= q (lo * lo <= q is given).
RECURSIVE ISqrt(_, _, _)
ISqrt(lo, hi, q) ==
    IF lo = hi THEN lo
    ELSE LET mid == (lo + hi + 1) \div 2
         IN IF mid * mid <= q THEN ISqrt(mid, hi, q) ELSE ISqrt(lo, mid - 1, q)

\* sklearn's cosine_similarity on two rows, as floor(scale * |cos|) with the
\* sign of the dot product; a zero row is normalised to itself and scores 0.
ScaledCosine(scale, a, b) ==
    LET d == Dot(a, b)
        n == Dot(a, a) * Dot(b, b)
    IN IF n = 0 \/ d = 0 THEN 0
       ELSE LET mag == ISqrt(0, scale, (scale * scale * d * d) \div n)
            IN IF d > 0 THEN mag ELSE 0 - mag

\* Scores are kept in units of 1/SCALE, truncated toward zero: fine enough
\* to decide sim >= 0.75 exactly and to round to three decimals.
SCALE == 2 * 1000

\* A length mismatch makes cosine_similarity raise ValueError, which
\* compute_similarity turns into 0.0.
compute_similarity(a, b) ==
    IF Len(a) # Len(b) THEN 0 ELSE ScaledCosine(SCALE, a, b)

\* round(sim, 3), in thousandths.
round3(sim) ==
    IF sim >= 0 THEN (sim + 1) \div 2 ELSE 0 - ((1 - sim) \div 2)

\* 0.75
THRESHOLD == (3 * SCALE) \div 4

\* Variant: the boundary score is rejected.
is_match_strict(sim) == sim > THRESHOLD

is_match(sim) == sim >= THRESHOLD

(***************************************************************************)
(* Queries                                                                 *)
(***************************************************************************)
RECURSIVE RowsAt(_, _)
\* The rows of a table whose id is in ids, in id order.
RowsAt(rows, ids) ==
    IF rows = <<>> THEN <<>>
    ELSE IF Head(rows).id \in ids
         THEN <<Head(rows)>> \o RowsAt(Tail(rows), ids)
         ELSE RowsAt(Tail(rows), ids)

RECURSIVE Reverse(_)
Reverse(s) == IF s = <<>> THEN <<>> ELSE Reverse(Tail(s)) \o <<Head(s)>>

Ids(rows) == [i \in 1..Len(rows) |-> rows[i].id]

\* Item.query.filter_by(type='lost').all()
lost_items_query ==
    RowsAt(items, {i \in 1..Len(items) : items[i].type = "lost"})

\* User.query.get(id): the row, or none.
UserExists(id) == id \in 1..Len(users)

\* flask_login's load_user: the session's user id is resolved with
\* User.query.get.
is_authenticated(session_id) == UserExists(session_id)

\* The user ids a request's session cookie may carry.
Sessions == 0..MaxUsers

(***************************************************************************)
(* notify_user                                                             *)
(***************************************************************************)
Event(ev, lost_item) == [ev |-> ev, lost |-> lost_item.id]

\* Variant: the exception of mail.send is not caught.
send_email_uncaught(user, lost_item, mail_ok) ==
    IF user.email # "" /\ MAIL_USERNAME
    THEN [log |-> <<Event(IF mail_ok THEN "email_sent" ELSE "email_failed", lost_item)>>,
          raised |-> ~mail_ok]
    ELSE [log |-> <<>>, raised |-> FALSE]

\* Lines 139-150: one mail.send inside try/except.
send_email(user, lost_item, mail_ok) ==
    IF user.email # "" /\ MAIL_USERNAME
    THEN [log |-> <<Event(IF mail_ok THEN "email_sent" ELSE "email_failed", lost_item)>>,
          raised |-> FALSE]
    ELSE [log |-> <<>>, raised |-> FALSE]

\* Variant: the SMS is sent without looking at the owner's phone number.
send_sms_any_phone(user, lost_item, sms_ok) ==
    IF USE_TWILIO
    THEN [log |-> <<Event(IF sms_ok THEN "sms_sent" ELSE "sms_failed", lost_item)>>,
          raised |-> FALSE]
    ELSE [log |-> <<>>, raised |-> FALSE]

\* Lines 153-163: one twilio create inside try/except.
send_sms(user, lost_item, sms_ok) ==
    IF USE_TWILIO /\ user.phone # ""
    THEN [log |-> <<Event(IF sms_ok THEN "sms_sent" ELSE "sms_failed", lost_item)>>,
          raised |-> FALSE]
    ELSE [log |-> <<>>, raised |-> FALSE]

\* Variant: the record is addressed to the finder.
new_notification_to_finder(notifs, user_id, user, lost_item, found_item, similarity) ==
    [id |-> Len(notifs) + 1,
     receiver_id |-> found_item.user_id,
     lost_item_id |-> lost_item.id,
     found_item_id |-> found_item.id,
     message |-> [hello |-> user.username, score |-> round3(similarity)],
     status |-> "sent"]

\* Lines 133-136: the row that is added and committed.
new_notification(notifs, user_id, user, lost_item, found_item, similarity) ==
    [id |-> Len(notifs) + 1,
     receiver_id |-> user_id,
     lost_item_id |-> lost_item.id,
     found_item_id |-> found_item.id,
     message |-> [hello |-> user.username, score |-> round3(similarity)],
     status |-> "sent"]

\* Variant: both sends share one try block, so a failed email skips the SMS.
notify_user_one_try(lost_item, found_item, similarity, notifs, mail_ok, sms_ok) ==
    IF ~UserExists(lost_item.user_id)
    THEN [notifications |-> notifs,
          log |-> <<Event("call", lost_item), Event("return", lost_item)>>,
          raised |-> FALSE]
    ELSE LET user == users[lost_item.user_id]
             saved == Append(notifs, new_notification(notifs, lost_item.user_id, user,
                                                      lost_item, found_item, similarity))
             em == send_email(user, lost_item, mail_ok)
             sm == IF em.log # <<>> /\ ~mail_ok THEN [log |-> <<>>, raised |-> FALSE]
                   ELSE send_sms(user, lost_item, sms_ok)
         IN [notifications |-> saved,
             log |-> <<Event("call", lost_item), Event("commit", lost_item)>>
                     \o em.log \o sm.log \o <<Event("return", lost_item)>>,
             raised |-> FALSE]

\* The whole call: the notification table afterwards, the trace, and whether
\* an exception left the function.
notify_user(lost_item, found_item, similarity, notifs, mail_ok, sms_ok) ==
    IF ~UserExists(lost_item.user_id)
    THEN [notifications |-> notifs,
          log |-> <<Event("call", lost_item), Event("return", lost_item)>>,
          raised |-> FALSE]
    ELSE LET user == users[lost_item.user_id]
             saved == Append(notifs, new_notification(notifs, lost_item.user_id, user,
                                                      lost_item, found_item, similarity))
             em == send_email(user, lost_item, mail_ok)
             sm == IF em.raised THEN [log |-> <<>>, raised |-> FALSE]
                   ELSE send_sms(user, lost_item, sms_ok)
             failed == em.raised \/ sm.raised
         IN [notifications |-> saved,
             log |-> <<Event("call", lost_item), Event("commit", lost_item)>>
                     \o em.log \o sm.log
                     \o (IF failed THEN <<>> ELSE <<Event("return", lost_item)>>),
             raised |-> failed]

(***************************************************************************)
(* The scan of found(), lines 262-268                                      *)
(***************************************************************************)
match_entry(li, sim) == [item |-> li.id, similarity |-> round3(sim)]

\* Variant: notify_user is called outside the threshold test.
scan_step_notify_all(li, feats, found_item, acc, mail_fail, sms_fail) ==
    LET fa == feature_array(li)
    IN IF fa.raised THEN [acc EXCEPT !.raised = TRUE]
       ELSE LET sim == compute_similarity(feats, fa.arr)
                r == notify_user(li, found_item, sim, acc.notifications,
                                 li.id \notin mail_fail, li.id \notin sms_fail)
            IN [notifications |-> r.notifications,
                matches |-> IF is_match(sim)
                            THEN Append(acc.matches, match_entry(li, sim))
                            ELSE acc.matches,
                log |-> acc.log \o r.log,
                raised |-> r.raised]

\* One iteration of the loop body for candidate li.
scan_step(li, feats, found_item, acc, mail_fail, sms_fail) ==
    LET fa == feature_array(li)
    IN IF fa.raised THEN [acc EXCEPT !.raised = TRUE]
       ELSE LET sim == compute_similarity(feats, fa.arr)
            IN IF is_match(sim)
               THEN LET r == notify_user(li, found_item, sim, acc.notifications,
                                         li.id \notin mail_fail, li.id \notin sms_fail)
                    IN [notifications |-> r.notifications,
                        matches |-> Append(acc.matches, match_entry(li, sim)),
                        log |-> acc.log \o r.log,
                        raised |-> r.raised]
               ELSE acc

RECURSIVE scan(_, _, _, _, _, _)
\* for li in lost_items: ...; an exception ends the loop.
scan(lost_items, feats, found_item, acc, mail_fail, sms_fail) ==
    IF lost_items = <<>> \/ acc.raised THEN acc
    ELSE scan(Tail(lost_items), feats, found_item,
              scan_step(Head(lost_items), feats, found_item, acc, mail_fail, sms_fail),
              mail_fail, sms_fail)

(***************************************************************************)
(* Routes                                                                  *)
(***************************************************************************)
new_item(current_user, type, feats) ==
    [id |-> Len(items) + 1, user_id |-> current_user, type |-> type,
     features |-> json_dumps(feats)]

Respond(r) ==
    /\ response' = r
    /\ matches' = <<>>
    /\ log' = <<>>

username_or_email_taken(form) ==
    \E i \in 1..Len(users) :
        users[i].username = form.username \/ users[i].email = form.email

\* POST /register
Register(form) ==
    /\ Respond("page")
    /\ IF username_or_email_taken(form)
       THEN UNCHANGED users
       ELSE Len(users) < MaxUsers /\ users' = Append(users, form)
    /\ UNCHANGED <<items, notifications, MAIL_USERNAME, USE_TWILIO>>

\* POST /login: login_user puts the id of the user with these credentials, if
\* any, into the browser's cookie.
Login(form) ==
    /\ Respond("page")
    /\ UNCHANGED <<users, items, notifications, MAIL_USERNAME, USE_TWILIO>>

\* GET /logout: clears the browser's cookie.
Logout(current_user) ==
    /\ Respond("page")
    /\ UNCHANGED <<users, items, notifications, MAIL_USERNAME, USE_TWILIO>>

\* Item.query.filter_by(user_id=..., type=...)
OwnedBy(user_id, type) ==
    {i \in 1..Len(items) : items[i].user_id = user_id /\ items[i].type = type}

\* Notification.query.filter_by(receiver_id=...)
ReceivedBy(receiver) ==
    {i \in 1..Len(notifications) : notifications[i].receiver_id = receiver}

\* What dashboard.html is rendered with for current_user; the notifications
\* come newest first.
dashboard_view(current_user) ==
    [lost |-> Ids(RowsAt(items, OwnedBy(current_user, "lost"))),
     found |-> Ids(RowsAt(items, OwnedBy(current_user, "found"))),
     notifications |->
         Reverse(Ids(RowsAt(notifications, ReceivedBy(current_user))))]

\* Variant: rendering the dashboard marks the user's notifications as read.
Dashboard_marks_read(current_user) ==
    /\ Respond("page")
    /\ notifications' =
           [i \in 1..Len(notifications) |->
               IF notifications[i].receiver_id = current_user
               THEN [notifications[i] EXCEPT !.status = "read"]
               ELSE notifications[i]]
    /\ UNCHANGED <<users, items, MAIL_USERNAME, USE_TWILIO>>

\* GET /dashboard
Dashboard(current_user) ==
    /\ Respond("page")
    /\ UNCHANGED <<users, items, notifications, MAIL_USERNAME, USE_TWILIO>>

\* Variant: a failed extraction stores the item with a zero embedding.
Lost_zero_on_failure(current_user, img) ==
    /\ UNCHANGED <<users, notifications, MAIL_USERNAME, USE_TWILIO>>
    /\ IF ~is_authenticated(current_user)
       THEN Respond("page") /\ UNCHANGED items
       ELSE IF img.kind = "none"
       THEN Respond("no_image") /\ UNCHANGED items
       ELSE /\ Len(items) < MaxItems
            /\ items' = Append(items,
                   new_item(current_user, "lost",
                            IF img.kind = "corrupt" THEN <<0, 0, 0, 0, 0>> ELSE img.feats))
            /\ Respond(IF img.kind = "corrupt" THEN "extract_error" ELSE "lost_reported")

\* Variant: a lost submission is matched against the stored found items and its
\* owner is notified of the first one accepted.
Lost_matches_found_items(current_user, img) ==
    /\ UNCHANGED <<users, MAIL_USERNAME, USE_TWILIO>>
    /\ IF ~is_authenticated(current_user)
       THEN Respond("page") /\ UNCHANGED <<items, notifications>>
       ELSE IF img.kind = "none"
       THEN Respond("no_image") /\ UNCHANGED <<items, notifications>>
       ELSE IF img.kind = "corrupt"
       THEN Respond("extract_error") /\ UNCHANGED <<items, notifications>>
       ELSE /\ Len(items) < MaxItems
            /\ LET li == new_item(current_user, "lost", img.feats)
                   hits == {i \in 1..Len(items) :
                               /\ items[i].type = "found"
                               /\ ~feature_array(items[i]).raised
                               /\ is_match(compute_similarity(
                                      img.feats, feature_array(items[i]).arr))}
               IN /\ items' = Append(items, li)
                  /\ notifications' =
                         IF hits = {} THEN notifications
                         ELSE LET f == CHOOSE i \in hits : \A j \in hits : i <= j
                              IN Append(notifications,
                                     new_notification(notifications, current_user,
                                         users[current_user], li, items[f],
                                         compute_similarity(img.feats,
                                             feature_array(items[f]).arr)))
            /\ Respond("lost_reported")

\* POST /lost
Lost(current_user, img) ==
    /\ UNCHANGED <<users, notifications, MAIL_USERNAME, USE_TWILIO>>
    /\ IF ~is_authenticated(current_user)
       THEN Respond("page") /\ UNCHANGED items
       ELSE IF img.kind = "none"
       THEN Respond("no_image") /\ UNCHANGED items
       ELSE IF img.kind = "corrupt"
       THEN Respond("extract_error") /\ UNCHANGED items
       ELSE /\ Len(items) < MaxItems
            /\ items' = Append(items, new_item(current_user, "lost", img.feats))
            /\ Respond("lost_reported")

\* The candidates whose delivery outcome on a channel can be looked at during
\* a scan for feats: the lost items the scan accepts whose owner has an
\* address for the channel, when the channel is configured.
Reachable(feats, channel) ==
    {i \in 1..Len(items) :
        /\ items[i].type = "lost"
        /\ UserExists(items[i].user_id)
        /\ IF channel = "email"
           THEN MAIL_USERNAME /\ users[items[i].user_id].email # ""
           ELSE USE_TWILIO /\ users[items[i].user_id].phone # ""
        /\ ~feature_array(items[i]).raised
        /\ is_match(compute_similarity(feats, feature_array(items[i]).arr))}

\* POST /found.  mail_fail and sms_fail are the candidates for which the mail
\* transport and the SMS transport fail during this request.
Found(current_user, img) ==
    /\ UNCHANGED <<users, MAIL_USERNAME, USE_TWILIO>>
    /\ IF ~is_authenticated(current_user)
       THEN Respond("page") /\ UNCHANGED <<items, notifications>>
       ELSE IF img.kind = "none"
       THEN Respond("no_image") /\ UNCHANGED <<items, notifications>>
       ELSE IF img.kind = "corrupt"
       THEN Respond("extract_error") /\ UNCHANGED <<items, notifications>>
       ELSE /\ Len(items) < MaxItems
            /\ LET by_mail == Reachable(img.feats, "email")
                   by_sms == Reachable(img.feats, "sms")
               IN \E mail_fail \in SUBSET by_mail, sms_fail \in SUBSET by_sms :
                    LET found_item == new_item(current_user, "found", img.feats)
                        r == scan(lost_items_query, img.feats, found_item,
                                  [notifications |-> notifications, matches |-> <<>>,
                                   log |-> <<>>, raised |-> FALSE],
                                  mail_fail, sms_fail)
                    IN /\ items' = Append(items, found_item)
                       /\ notifications' = r.notifications
                       /\ log' = r.log
                       /\ IF r.raised
                          THEN response' = "scan_error" /\ matches' = <<>>
                          ELSE response' = "results" /\ matches' = r.matches

\* GET /reset
Reset ==
    /\ users' = <<>>
    /\ items' = <<>>
    /\ notifications' = <<>>
    /\ Respond("reset")
    /\ UNCHANGED <<MAIL_USERNAME, USE_TWILIO>>

(***************************************************************************)
(* Specifications                                                          *)
(***************************************************************************)
InitProcess ==
    /\ MAIL_USERNAME \in BOOLEAN
    /\ USE_TWILIO \in BOOLEAN
    /\ response = "start"
    /\ matches = <<>>
    /\ log = <<>>

\* The server started on a fresh database and an empty upload folder.
Init ==
    /\ users = <<>>
    /\ items = <<>>
    /\ notifications = <<>>
    /\ InitProcess

Next ==
    \/ \E form \in RegisterForms : Register(form)
    \/ \E form \in LoginForms : Login(form)
    \/ \E current_user \in Sessions : Logout(current_user)
    \/ \E current_user \in Sessions : Dashboard(current_user)
    \/ \E current_user \in Sessions, img \in LostImages : Lost(current_user, img)
    \/ \E current_user \in Sessions, img \in FoundImages : Found(current_user, img)
    \/ Reset

Spec == Init /\ [][Next]_vars

(***************************************************************************)
(* A server started on a database file left by an earlier deployment.      *)
(* database.db persists across restarts and db.create_all() keeps existing *)
(* tables, so at start the item table may hold rows that this code did not *)
(* write: features that are not a JSON array, an embedding of another      *)
(* extractor's length, a zero embedding, and an owner whose user row is    *)
(* gone.                                                                   *)
(***************************************************************************)
EmbShort == <<1, 0>>
EmbZero == <<0, 0, 0, 0, 0>>

LegacyFeatures ==
    {[text |-> "invalid", arr |-> <<>>],
     json_dumps(EmbShort), json_dumps(EmbZero), json_dumps(EmbA)}

\* The item tables of at most MaxLegacy lost rows owned by user id MaxUsers.
LegacyTables ==
    UNION {[1..n -> LegacyFeatures] : n \in 0..MaxLegacy}

LegacyRows(table) ==
    [i \in 1..Len(table) |->
        [id |-> i, user_id |-> MaxUsers, type |-> "lost", features |-> table[i]]]

InitLegacy ==
    /\ users = <<>>
    /\ \E table \in LegacyTables : items = LegacyRows(table)
    /\ notifications = <<>>
    /\ InitProcess

SpecLegacy == InitLegacy /\ [][Next]_vars

(***************************************************************************)
(* Vocabulary of the properties.  The threshold is restated here on exact  *)
(* integers, without the scaled score: cos(a, b) >= 3/4 iff the dot        *)
(* product is positive and 16 (a.b)^2 >= 9 |a|^2 |b|^2.                    *)
(***************************************************************************)
CosineAtLeastThreeQuarters(a, b) ==
    /\ Len(a) = Len(b)
    /\ Dot(a, b) > 0
    /\ 16 * Dot(a, b) * Dot(a, b) >= 9 * Dot(a, a) * Dot(b, b)

Loadable(item) == item.features.text = "array"

\* Whether lost item li is a match for found item f.
ShouldMatch(f, li) ==
    /\ Loadable(li)
    /\ CosineAtLeastThreeQuarters(f.features.arr, li.features.arr)

\* A found submission has just run its scan: the found item is the last row.
AfterFound == response \in {"results", "scan_error"}

last_found == items[Len(items)]

RECURSIVE ExpectedFrom(_)
\* Ids, ascending from i, of the stored lost items that match last_found.
ExpectedFrom(i) ==
    IF i >= Len(items) THEN <<>>
    ELSE IF items[i].type = "lost" /\ ShouldMatch(last_found, items[i])
         THEN <<i>> \o ExpectedFrom(i + 1)
         ELSE ExpectedFrom(i + 1)

ExpectedMatches == ExpectedFrom(1)

MatchItems == [i \in 1..Len(matches) |-> matches[i].item]

\* The lost ids of the events of kind ev, in trace order.
RECURSIVE EventsOf(_, _)
EventsOf(trace, ev) ==
    IF trace = <<>> THEN <<>>
    ELSE IF Head(trace).ev = ev
         THEN <<Head(trace).lost>> \o EventsOf(Tail(trace), ev)
         ELSE EventsOf(Tail(trace), ev)

Range(seq) == {seq[i] : i \in 1..Len(seq)}

EmailEvents == {"email_sent", "email_failed"}
SmsEvents == {"sms_sent", "sms_failed"}

NotificationsFor(f, l) ==
    {i \in 1..Len(notifications) :
        notifications[i].found_item_id = f /\ notifications[i].lost_item_id = l}

(***************************************************************************)
(* C1: when a found submission returns, its match sequence is exactly the  *)
(* stored lost items whose cosine similarity to the found embedding is at  *)
(* least 0.75 (0.75 itself included), whoever owns them, in catalog        *)
(* (insertion) order and not by score; no found item is in it.             *)
(***************************************************************************)
C1_MatchesAreLostItemsAtThreshold ==
    response = "results" =>
        /\ MatchItems = ExpectedMatches
        /\ \A i \in 1..Len(matches) : items[matches[i].item].type = "lost"
        /\ \A i \in 1..Len(matches) : \A j \in 1..Len(matches) :
               i < j => matches[i].item < matches[j].item

\* Two matches returned in catalog order with the boundary score 0.75 ahead of
\* the score 1.0, the first of them the submitter's own lost item.
C1_Witness ==
    /\ response = "results"
    /\ Len(matches) = 2
    /\ matches[1].similarity = 750
    /\ matches[2].similarity = 1000
    /\ items[matches[1].item].user_id = last_found.user_id
    /\ items[matches[2].item].user_id # last_found.user_id

(***************************************************************************)
(* C2: during one found submission notify_user is called exactly once for  *)
(* each accepted match, in scan order, never for a lost item scoring below *)
(* 0.75, and every call has returned when the submission returns; with no  *)
(* accepted match the result is empty and no call is made.                 *)
(***************************************************************************)
C2_OneCallPerMatch ==
    response = "results" =>
        /\ EventsOf(log, "call") = MatchItems
        /\ EventsOf(log, "return") = MatchItems
        /\ \A l \in Range(EventsOf(log, "call")) : ShouldMatch(last_found, items[l])
        /\ (matches = <<>> => log = <<>>)

\* One accepted match and one stored lost item below the threshold: one call.
C2_Witness ==
    /\ response = "results"
    /\ Len(matches) = 1
    /\ EventsOf(log, "call") = <<matches[1].item>>
    /\ \E i \in 1..(Len(items) - 1) :
           /\ items[i].type = "lost"
           /\ ~ShouldMatch(last_found, items[i])
           /\ Dot(last_found.features.arr, items[i].features.arr) > 0

(***************************************************************************)
(* C3: notify_user never raises: whatever the mail and SMS transports do,  *)
(* every call returns, the scan goes on to the remaining lost items, and   *)
(* the submission returns the same match set as when every delivery        *)
(* succeeds.                                                               *)
(***************************************************************************)
C3_DeliveryFailureNeverRaises ==
    AfterFound =>
        /\ response = "results"
        /\ EventsOf(log, "return") = EventsOf(log, "call")
        /\ MatchItems = ExpectedMatches

\* Both channels failed for the first match and the scan still reached and
\* returned the second one.
C3_Witness ==
    /\ response = "results"
    /\ Len(matches) = 2
    /\ \E i \in 1..Len(log), j \in 1..Len(log), k \in 1..Len(log) :
           /\ i < j /\ j < k
           /\ log[i].ev = "email_failed" /\ log[i].lost = matches[1].item
           /\ log[j].ev = "sms_failed" /\ log[j].lost = matches[1].item
           /\ log[k].ev = "call" /\ log[k].lost = matches[2].item

(***************************************************************************)
(* C4: after any sequence of register, lost, found and reset operations on *)
(* a fresh database no (found item, lost item) pair has more than one      *)
(* Notification, and when a found submission returns there is exactly one  *)
(* Notification for each match it accepted, addressed to the owner of the  *)
(* lost item and naming the two items, and none for any other pair.        *)
(***************************************************************************)
C4_OneNotificationPerAcceptedMatch ==
    /\ \A i \in 1..Len(notifications) : \A j \in 1..Len(notifications) :
           (/\ notifications[i].found_item_id = notifications[j].found_item_id
            /\ notifications[i].lost_item_id = notifications[j].lost_item_id) => i = j
    /\ response = "results" =>
           /\ \A l \in Range(MatchItems) :
                  /\ Cardinality(NotificationsFor(Len(items), l)) = 1
                  /\ \A n \in NotificationsFor(Len(items), l) :
                         notifications[n].receiver_id = items[l].user_id
           /\ \A l \in 1..Len(items) :
                  l \notin Range(MatchItems) => NotificationsFor(Len(items), l) = {}

\* A submission that accepted two matches owned by two different users, one of
\* them the finder.
C4_Witness ==
    /\ response = "results"
    /\ Len(matches) = 2
    /\ Len(notifications) = 2
    /\ notifications[1].receiver_id # notifications[2].receiver_id

(***************************************************************************)
(* C5: the channels are independent and leave the record alone: when the   *)
(* email send fails the SMS send is still attempted, if the owner has a    *)
(* phone number and the SMS transport is configured, and whatever the      *)
(* outcomes the Notification persisted for the match stays in the store    *)
(* with status 'sent'.                                                     *)
(***************************************************************************)
C5_ChannelsIndependentRecordKept ==
    /\ \A n \in 1..Len(notifications) : notifications[n].status = "sent"
    /\ AfterFound =>
           \A i \in 1..Len(log) :
               /\ (/\ log[i].ev = "email_failed"
                   /\ USE_TWILIO
                   /\ users[items[log[i].lost].user_id].phone # "")
                  => /\ i < Len(log)
                     /\ log[i + 1].ev \in SmsEvents
                     /\ log[i + 1].lost = log[i].lost
               /\ log[i].ev \in {"commit", "email_failed", "sms_failed"}
                  => Cardinality(NotificationsFor(Len(items), log[i].lost)) = 1

\* The email send failed, the SMS went out, the record is stored as sent.
C5_Witness ==
    /\ response = "results"
    /\ \E i \in 1..(Len(log) - 1) :
           /\ log[i].ev = "email_failed"
           /\ log[i + 1].ev = "sms_sent"
           /\ log[i + 1].lost = log[i].lost
           /\ \E n \in NotificationsFor(Len(items), log[i].lost) :
                  notifications[n].status = "sent"

(***************************************************************************)
(* C6: a rejected submission (no image, or an image the feature extractor  *)
(* fails on) changes nothing in the item and notification stores: no Item  *)
(* is persisted, none ever carries a placeholder embedding, no scan runs   *)
(* and no Notification is created or delivered.                            *)
(***************************************************************************)
C6_RejectedSubmissionChangesNothing ==
    /\ [](\A i \in 1..Len(items) :
              /\ Loadable(items[i])
              /\ items[i].features.arr \in Embeddings)
    /\ [][response' \in {"no_image", "extract_error"} =>
              /\ items' = items
              /\ notifications' = notifications
              /\ matches' = <<>>
              /\ log' = <<>>]_vars

\* An extraction failure answered while items and a notification are stored.
C6_Witness ==
    /\ response = "extract_error"
    /\ Len(items) > 0
    /\ Len(notifications) > 0

(***************************************************************************)
(* C7: a scoring error on one candidate never aborts the scan: a stored    *)
(* lost item whose embedding is corrupt (zero vector, wrong length, or a   *)
(* features value that does not load as an array) is a non-match, and      *)
(* every other lost item is still scored and, at 0.75 or more, returned    *)
(* and notified.                                                           *)
(***************************************************************************)
C7_CorruptCandidateNeverAbortsScan ==
    AfterFound =>
        /\ response = "results"
        /\ MatchItems = ExpectedMatches
        /\ EventsOf(log, "call") = ExpectedMatches

(***************************************************************************)
(* C8, as claimed: once persisted, a Notification is never modified or     *)
(* deleted by any later operation, reset included.                         *)
(***************************************************************************)
C8_NotificationsNeverDeleted ==
    [][/\ Len(notifications') >= Len(notifications)
       /\ \A i \in 1..Len(notifications) : notifications'[i] = notifications[i]]_vars

(***************************************************************************)
(* C8, amended: no operation other than reset modifies or deletes a        *)
(* persisted Notification, and it stays listed on its receiver's           *)
(* dashboard; reset deletes every Notification.                            *)
(***************************************************************************)
C8_NotificationsKeptUntilReset ==
    /\ [](\A i \in 1..Len(notifications) :
              notifications[i].id \in
                  Range(dashboard_view(notifications[i].receiver_id).notifications))
    /\ [][IF response' = "reset"
          THEN notifications' = <<>>
          ELSE /\ Len(notifications') >= Len(notifications)
               /\ \A i \in 1..Len(notifications) :
                      notifications'[i] = notifications[i]]_vars

\* A lost item was reported after a Notification had been persisted.
C8_Witness ==
    /\ response = "lost_reported"
    /\ Len(notifications) > 0

(***************************************************************************)
(* C9: within one notify_user call the record is committed before any      *)
(* delivery attempt, the email attempt precedes the SMS attempt, at most   *)
(* one of each is made, an email only if the owner has an address and a    *)
(* mail sender is configured, an SMS only if the owner has a phone number  *)
(* and the SMS transport is configured; when the owner cannot be resolved  *)
(* nothing is persisted and nothing is attempted.                          *)
(***************************************************************************)
C9_NotifyStepsOrderedAndBounded ==
    AfterFound =>
        \A i \in 1..Len(log) :
            LET e == log[i]
                owner == items[e.lost].user_id
                before == IF i = 1 THEN "none" ELSE log[i - 1].ev
                same == i > 1 /\ log[i - 1].lost = e.lost
            IN /\ e.ev = "call" =>
                      /\ before \in {"none", "return"}
                      /\ i < Len(log)
                      /\ log[i + 1].lost = e.lost
                      /\ log[i + 1].ev = IF UserExists(owner) THEN "commit" ELSE "return"
                      /\ ~UserExists(owner) => NotificationsFor(Len(items), e.lost) = {}
               /\ e.ev = "commit" => same /\ before = "call"
               /\ e.ev \in EmailEvents =>
                      /\ same /\ before = "commit"
                      /\ MAIL_USERNAME /\ users[owner].email # ""
               /\ e.ev \in SmsEvents =>
                      /\ same /\ before \in {"commit"} \cup EmailEvents
                      /\ USE_TWILIO /\ users[owner].phone # ""
               /\ e.ev = "return" =>
                      same /\ before \in {"call", "commit"} \cup EmailEvents \cup SmsEvents

\* One scan made a call for a lost item whose owner does not exist and a call
\* that committed, then mailed, then texted.
C9_Witness ==
    /\ response = "results"
    /\ \E i \in 1..(Len(log) - 1) :
           /\ log[i].ev = "call" /\ log[i + 1].ev = "return"
    /\ \E i \in 1..(Len(log) - 3) :
           /\ log[i].ev = "commit"
           /\ log[i + 1].ev \in EmailEvents
           /\ log[i + 2].ev \in SmsEvents
           /\ log[i + 3].ev = "return"

(***************************************************************************)
(* C10: only found submissions trigger matching, against the lost items    *)
(* stored when the scan starts: a lost submission adds exactly one lost    *)
(* Item and creates no Notification and no delivery attempt, so a lost     *)
(* item reported after a found item is never notified against it.          *)
(***************************************************************************)
C10_LostSubmissionNeverMatches ==
    /\ [](\A n \in 1..Len(notifications) :
              notifications[n].lost_item_id < notifications[n].found_item_id)
    /\ [][response' = "lost_reported" =>
              /\ Len(items') = Len(items) + 1
              /\ \A i \in 1..Len(items) : items'[i] = items[i]
              /\ items'[Len(items')].type = "lost"
              /\ notifications' = notifications
              /\ matches' = <<>>
              /\ log' = <<>>]_vars

\* A lost item was reported after a stored found item that it matches.
C10_Witness ==
    /\ response = "lost_reported"
    /\ \E i \in 1..(Len(items) - 1) :
           /\ items[i].type = "found"
           /\ ShouldMatch(items[i], items[Len(items)])
    /\ notifications = <<>>

====
